---- MODULE Spec2Model ----
(***************************************************************************)
(* A model of elopage-dl (src/src/main.rs): the module tree resolver, the  *)
(* module tree normalizer, the discovery of a lesson's assets, the         *)
(* bounded-concurrency download executor and the supervisor of the yt-dlp  *)
(* helper process.  Every component has a specification of its own over    *)
(* the variables below; the variables of the other components stay idle.   *)
(***************************************************************************)
EXTENDS Integers, Sequences, FiniteSets, TLC

VARIABLES
    \* resolve_module_tree, as main calls it (main.rs:86-105)
    lessons_list,       \* the flat list, active items only
    module_tree,        \* the first component of the result
    remaining_stack,    \* the second component of the result
    resolver_calls,     \* the recursive calls the resolver made: how deep
                        \* they were nested, and whether each was handed
                        \* fewer items than its caller was
    resolver_pc,        \* "idle" | "fetched" | "resolved"
    \* normalize_module_tree, as main calls it (main.rs:110)
    normalizer_in,      \* the resolved tree handed to the normalizer
    normalized_tree,    \* its result
    normalizer_pc,      \* "idle" | "resolved" | "normalized" | "panicked"
    \* downloads_stream.buffered(..).try_collect() (main.rs:126-130)
    parallel,           \* args.parallel
    n_tasks,            \* the download futures downloads_stream holds
    task_state,         \* of every future, by its place in the stream
    executor_pc,        \* "idle" | "fill" | "poll" | "returned_ok" | "returned_err"
    \* download_embed and child_read_to_end (main.rs:477-575)
    embed_pc,           \* "idle" | "start" | "joining" | "returned_ok" | "returned_err"
    child,              \* "none" | "spawn_failed" | "running" | "exited"
    exit_code,          \* the exit code of the child, once it has exited
    to_write,           \* lines the child has still to write, per stream
    pipe,               \* lines in the pipe, per stream
    reader,             \* per stream: "none" | "reading" | "done" | "failed"
    waiter,             \* "none" | "waiting" | "done" | "failed"
    \* download_content_block_assets_recursive and the futures it yields
    \* (main.rs:402-473, 579-635)
    content_blocks,     \* the content blocks fetched for a lesson
    futures,            \* the download futures of the returned stream
    results,            \* what the futures run so far returned
    downloads,          \* the calls of download(url, name, path) so far
    discovery_pc,       \* "idle" | "fetched" | "running" | "returned_ok"
                        \* | "returned_err" | "panicked"
    \* safe_path (main.rs:639-648)
    raw_name,           \* the name handed to safe_path, a sequence of chars
    sanitized,          \* safe_path(raw_name)
    resanitized,        \* safe_path(safe_path(raw_name))
    sanitizer_pc,       \* "idle" | "named" | "sanitized" | "resanitized"
    \* process_tree_recursive, as main calls it (main.rs:116-123, 250-352)
    course_tree,        \* the normalized module tree
    tree_items,         \* its items in the order they are processed, each
                        \* with the path of its directory
    visit,              \* the place, in depth-first order, of the tree item
                        \* being processed
    visit_step,         \* "dir" | "fetch": what is next for that item
    dirs,               \* the directories created so far
    downloads_stream,   \* the download futures chained so far
    failed_at,          \* the place of the item whose directory could not
                        \* be created, 0 if there is none
    builder_pc          \* "idle" | "processing" | "processed" | "returned_err"

resolverVars ==
    <<lessons_list, module_tree, remaining_stack, resolver_calls,
      resolver_pc>>

normalizerVars == <<normalizer_in, normalized_tree, normalizer_pc>>

executorVars == <<parallel, n_tasks, task_state, executor_pc>>

embedVars == <<embed_pc, child, exit_code, to_write, pipe, reader, waiter>>

discoveryVars == <<content_blocks, futures, results, downloads, discovery_pc>>

sanitizerVars == <<raw_name, sanitized, resanitized, sanitizer_pc>>

builderVars ==
    <<course_tree, tree_items, visit, visit_step, dirs, downloads_stream,
      failed_at, builder_pc>>

vars == <<resolverVars, normalizerVars, executorVars, embedVars,
          discoveryVars, sanitizerVars, builderVars>>

----------------------------------------------------------------------------
(* Bounds of the model. *)

MaxItems == 3       \* items of a flat lessons list
MaxPos == 2         \* values of the position field
MaxRoot == 4        \* root items of a tree handed to the normalizer
MaxTasks == 5       \* download futures of a run
MaxParallel == 3    \* values of --parallel
MaxLines == 2       \* lines the helper writes to one of its streams
PipeCapacity == 1   \* lines a pipe holds before a write blocks
MaxVariants == 3    \* encoded variants (assets) of a hosted video
MaxPieces == 3      \* pieces of a name handed to safe_path
MaxNodes == 3       \* items of a module tree handed to process_tree_recursive
MaxAssets == 2      \* file and video assets of a course

----------------------------------------------------------------------------
(* json.rs: LessonsListItem and ModuleTreeItem.  Option<Id> is 0 for None; *)
(* ids are positive.                                                       *)

None == 0

LessonsListItem(id, is_category, parent_id, position) ==
    [id |-> id, is_category |-> is_category, parent_id |-> parent_id,
     position |-> position]

Category(item, children) ==
    [kind |-> "Category", item |-> item, children |-> children]

Lesson(item) == [kind |-> "Lesson", item |-> item]

----------------------------------------------------------------------------
(* resolve_module_tree (main.rs:137-186). *)

\* The two halves of the partition of main.rs:143-145.
LevelItems(parent_id, stack) ==
    LET Matches(item) == item.parent_id = parent_id
    IN  SelectSeq(stack, Matches)

\* A mutant of RemainingItems: the items of the level stay in the pool.
RemainingItemsUnsplit(parent_id, stack) == stack

RemainingItems(parent_id, stack) ==
    LET Other(item) == item.parent_id # parent_id
    IN  SelectSeq(stack, Other)

\* A mutant of NextRemaining: the pool a recursion returns is not handed on.
NextRemainingStale(before, after) == before

\* main.rs:157: the pool the recursion returned replaces the one moved in.
NextRemaining(before, after) == after

\* A mutant of MakeNode: the collected children are dropped for every item.
MakeNodeDropChildren(item, children) == Lesson(item)

\* main.rs:161-170: a category keeps its children, a lesson has no place
\* for them (the children collected for a lesson are logged and dropped).
MakeNode(item, children) ==
    IF item.is_category THEN Category(item, children) ELSE Lesson(item)

\* Insertion of a node into a level sorted by position, after every node
\* whose position is not larger: slice::sort_by is a stable sort.
RECURSIVE InsertByPosition(_, _)
InsertByPosition(node, sorted) ==
    IF sorted = <<>> THEN <<node>>
    ELSE IF Head(sorted).item.position <= node.item.position
         THEN <<Head(sorted)>> \o InsertByPosition(node, Tail(sorted))
         ELSE <<node>> \o sorted

RECURSIVE SortedPrefix(_, _)
SortedPrefix(level, k) ==
    IF k = 0 THEN <<>>
    ELSE InsertByPosition(level[k], SortedPrefix(level, k - 1))

\* A mutant of SortByPosition: the level is returned in list order.
SortByPositionSkipped(tree_level) == tree_level

\* main.rs:173-183.
SortByPosition(tree_level) == SortedPrefix(tree_level, Len(tree_level))

\* A call that recurses for no item.
NoCalls == [depth |-> 0, shrinking |-> TRUE]

\* The record of the recursive calls of a level, after one more of them:
\* `pool` was moved into the call, `stack` is the pool of the caller, and
\* `below` is the record of the calls it made in turn.
AfterCall(so_far, below, pool, stack) ==
    [depth |-> IF so_far.depth < 1 + below.depth
               THEN 1 + below.depth ELSE so_far.depth,
     shrinking |-> /\ so_far.shrinking
                   /\ below.shrinking
                   /\ Len(pool) < Len(stack)]

\* The result carries, beside the tree and the remaining pool of the
\* source, the record of the recursive calls made to compute it.
RECURSIVE resolve_module_tree(_, _)
resolve_module_tree(parent_id, stack) ==
    LET tree_level_items == LevelItems(parent_id, stack)
        RECURSIVE Loop(_, _, _, _)
        \* The for loop of main.rs:150-171, from item k on.
        Loop(k, tree_level, remaining, made) ==
            IF k > Len(tree_level_items)
            THEN [tree |-> tree_level, remaining |-> remaining,
                  calls |-> made]
            ELSE LET item == tree_level_items[k]
                     sub == resolve_module_tree(item.id, remaining)
                 IN  Loop(k + 1,
                          Append(tree_level, MakeNode(item, sub.tree)),
                          NextRemaining(remaining, sub.remaining),
                          AfterCall(made, sub.calls, remaining, stack))
        looped == Loop(1, <<>>, RemainingItems(parent_id, stack), NoCalls)
    IN  [tree |-> SortByPosition(looped.tree), remaining |-> looped.remaining,
         calls |-> looped.calls]

----------------------------------------------------------------------------
(* The flat lists the resolver is run on: n items with the ids n..1 (the   *)
(* list is fetched with sort_key=id, sort_dir=desc, main.rs:371), every    *)
(* parent_id absent, the id of an item of the list, or n+1, which no item  *)
(* of the list carries.                                                    *)

ItemFields(n) ==
    [is_category : BOOLEAN, parent_id : 0..(n + 1), position : 1..MaxPos]

FlatList(n, f) ==
    [i \in 1..n |->
        LessonsListItem(n + 1 - i, f[i].is_category, f[i].parent_id,
                        f[i].position)]

ResolverIdle ==
    /\ lessons_list = <<>>
    /\ module_tree = <<>>
    /\ remaining_stack = <<>>
    /\ resolver_calls = NoCalls
    /\ resolver_pc = "idle"

NormalizerIdle ==
    /\ normalizer_in = <<>>
    /\ normalized_tree = <<>>
    /\ normalizer_pc = "idle"

ExecutorIdle ==
    /\ parallel = 0
    /\ n_tasks = 0
    /\ task_state = <<>>
    /\ executor_pc = "idle"

Streams == {"stdout", "stderr"}

EmbedIdle ==
    /\ embed_pc = "idle"
    /\ child = "none"
    /\ exit_code = 0
    /\ to_write = [s \in Streams |-> 0]
    /\ pipe = [s \in Streams |-> 0]
    /\ reader = [s \in Streams |-> "none"]
    /\ waiter = "none"

DiscoveryIdle ==
    /\ content_blocks = <<>>
    /\ futures = <<>>
    /\ results = <<>>
    /\ downloads = <<>>
    /\ discovery_pc = "idle"

SanitizerIdle ==
    /\ raw_name = <<>>
    /\ sanitized = <<>>
    /\ resanitized = <<>>
    /\ sanitizer_pc = "idle"

BuilderIdle ==
    /\ course_tree = <<>>
    /\ tree_items = <<>>
    /\ visit = 0
    /\ visit_step = "dir"
    /\ dirs = {}
    /\ downloads_stream = <<>>
    /\ failed_at = 0
    /\ builder_pc = "idle"

InitResolver ==
    /\ SanitizerIdle
    /\ BuilderIdle
    /\ NormalizerIdle
    /\ ExecutorIdle
    /\ EmbedIdle
    /\ DiscoveryIdle
    /\ \E n \in 0..MaxItems :
         \E f \in [1..n -> ItemFields(n)] : lessons_list = FlatList(n, f)
    /\ module_tree = <<>>
    /\ remaining_stack = <<>>
    /\ resolver_calls = NoCalls
    /\ resolver_pc = "fetched"

\* main.rs:95.
Resolve ==
    /\ resolver_pc = "fetched"
    /\ LET r == resolve_module_tree(None, lessons_list)
       IN  /\ module_tree' = r.tree
           /\ remaining_stack' = r.remaining
           /\ resolver_calls' = r.calls
    /\ resolver_pc' = "resolved"
    /\ UNCHANGED <<lessons_list, normalizerVars, executorVars, embedVars,
                   discoveryVars, sanitizerVars, builderVars>>

NextResolver == Resolve

SpecResolver == InitResolver /\ [][NextResolver]_vars

----------------------------------------------------------------------------
(* normalize_module_tree (main.rs:191-246).  latest_empty_category is an   *)
(* Option<usize>: None, or the place in normalized_tree of the latest empty *)
(* root category (counted from 1 here, from 0 in the source).              *)

\* main.rs:195-205: <<is_category, is_empty>> of a root item.
Classify(tree_item) ==
    IF tree_item.kind = "Category"
    THEN IF tree_item.children = <<>> THEN <<TRUE, TRUE>> ELSE <<TRUE, FALSE>>
    ELSE <<FALSE, FALSE>>

\* A mutant of MarkerAfterCategory: a category that is not empty becomes
\* the latest empty category as well.
MarkerAfterCategoryAlways(is_empty, len) == len

\* main.rs:215-219: the marker after a root category has been pushed, `len`
\* being the length of normalized_tree then.
MarkerAfterCategory(is_empty, len) == IF is_empty THEN len ELSE None

\* main.rs:226-234: the lesson is pushed onto the children of the marked
\* category.
PushChild(normalized, index, tree_item) ==
    [normalized EXCEPT ![index].children = Append(@, tree_item)]

\* A mutant of NormalizeItem: every root category arms the marker, and the
\* first lesson moved takes it (Option::take), so that the lessons after it
\* stay at the root.
NormalizeItemTakesMarker(acc, tree_item) ==
    IF Classify(tree_item)[1]
    THEN [acc EXCEPT !.normalized_tree = Append(@, tree_item),
                     !.latest_empty_category = Len(acc.normalized_tree) + 1]
    ELSE IF acc.latest_empty_category # None
         THEN [acc EXCEPT !.normalized_tree =
                              PushChild(@, acc.latest_empty_category, tree_item),
                          !.latest_empty_category = None]
         ELSE [acc EXCEPT !.normalized_tree = Append(@, tree_item)]

\* One turn of the for loop of main.rs:194-240.
NormalizeItem(acc, tree_item) ==
    LET is_category == Classify(tree_item)[1]
        is_empty == Classify(tree_item)[2]
    IN  IF is_category
        THEN [acc EXCEPT !.normalized_tree = Append(@, tree_item),
                         !.latest_empty_category =
                             MarkerAfterCategory(is_empty,
                                                 Len(acc.normalized_tree) + 1)]
        ELSE IF acc.latest_empty_category # None
             THEN IF acc.normalized_tree[acc.latest_empty_category].kind
                        = "Category"
                  THEN [acc EXCEPT !.normalized_tree =
                            PushChild(@, acc.latest_empty_category, tree_item)]
                  ELSE [acc EXCEPT !.panicked = TRUE]   \* unreachable!()
             ELSE [acc EXCEPT !.normalized_tree = Append(@, tree_item)]

RECURSIVE NormalizeFrom(_, _)
NormalizeFrom(acc, rest) ==
    IF rest = <<>> \/ acc.panicked THEN acc
    ELSE NormalizeFrom(NormalizeItem(acc, Head(rest)), Tail(rest))

NormalizeRun(tree) ==
    NormalizeFrom([normalized_tree |-> <<>>, latest_empty_category |-> None,
                   panicked |-> FALSE], tree)

normalize_module_tree(tree) == NormalizeRun(tree).normalized_tree

----------------------------------------------------------------------------
(* The trees the normalizer is run on, as the resolver returns them: root  *)
(* item i has the id i and the position i, and is a lesson ("L"), an empty *)
(* category ("E"), a category holding a lesson ("C") or a category holding *)
(* an empty category and a lesson ("N"); children carry the ids 10i+k.     *)

Shapes == {"L", "E", "C", "N"}

RootItem(i, is_category) == LessonsListItem(i, is_category, None, i)

ChildItem(i, k, is_category) == LessonsListItem(10 * i + k, is_category, i, k)

RootNode(i, shape) ==
    CASE shape = "L" -> Lesson(RootItem(i, FALSE))
      [] shape = "E" -> Category(RootItem(i, TRUE), <<>>)
      [] shape = "C" -> Category(RootItem(i, TRUE),
                                 <<Lesson(ChildItem(i, 1, FALSE))>>)
      [] shape = "N" -> Category(RootItem(i, TRUE),
                                 <<Category(ChildItem(i, 1, TRUE), <<>>),
                                   Lesson(ChildItem(i, 2, FALSE))>>)

RootSequence(shapes) == [i \in DOMAIN shapes |-> RootNode(i, shapes[i])]

InitNormalizer ==
    /\ SanitizerIdle
    /\ BuilderIdle
    /\ ResolverIdle
    /\ ExecutorIdle
    /\ EmbedIdle
    /\ DiscoveryIdle
    /\ \E n \in 0..MaxRoot :
         \E shapes \in [1..n -> Shapes] : normalizer_in = RootSequence(shapes)
    /\ normalized_tree = <<>>
    /\ normalizer_pc = "resolved"

\* main.rs:110.
Normalize ==
    /\ normalizer_pc = "resolved"
    /\ LET run == NormalizeRun(normalizer_in)
       IN  /\ normalized_tree' = run.normalized_tree
           /\ normalizer_pc' = IF run.panicked THEN "panicked" ELSE "normalized"
    /\ UNCHANGED <<normalizer_in, resolverVars, executorVars, embedVars,
                   discoveryVars, sanitizerVars, builderVars>>

NextNormalizer == Normalize

SpecNormalizer == InitNormalizer /\ [][NextNormalizer]_vars

----------------------------------------------------------------------------
(* The executor (main.rs:126-130): StreamExt::buffered over the stream of  *)
(* download futures, consumed by TryStreamExt::try_collect.  A future is   *)
(*   "unstarted"  while the stream still holds it,                         *)
(*   "pushed"     once buffered has pulled it into its queue,              *)
(*   "running"    once it has been polled and is pending,                  *)
(*   "done_ok", "done_err"  once it has completed and its output waits for *)
(*                its turn (the buffer yields outputs in stream order),    *)
(*   "yielded_ok", "yielded_err"  once try_collect has received its        *)
(*                output,                                                  *)
(*   "dropped", "dropped_unpolled"  when the stream was dropped while the  *)
(*                future was running, or pushed and never polled.          *)

Tasks == 1..n_tasks

notExecutorVars ==
    <<resolverVars, normalizerVars, embedVars, discoveryVars,
      sanitizerVars, builderVars>>

\* A mutant of InBuffer: an output that has completed and waits for the
\* outputs in front of it does not count to the length of the queue.
InBufferUnfinished(state) == state \in {"pushed", "running"}

InBuffer(state) == state \in {"pushed", "running", "done_ok", "done_err"}

\* FuturesOrdered::len: the futures in progress and the queued outputs.
BufferLen == Cardinality({ i \in Tasks : InBuffer(task_state[i]) })

\* main.rs:127: args.parallel.clamp(1, usize::MAX).
Limit == IF parallel < 1 THEN 1 ELSE parallel

\* A mutant of HasFreeSlot: the buffer is filled to one more than the limit.
HasFreeSlotOffByOne == BufferLen <= Limit

\* Buffered::poll_next fills its queue while it holds fewer than the limit.
HasFreeSlot == BufferLen < Limit

StreamHasNext == \E i \in Tasks : task_state[i] = "unstarted"

\* The next future of the stream.
NextIncoming ==
    CHOOSE i \in Tasks :
        /\ task_state[i] = "unstarted"
        /\ \A j \in Tasks : task_state[j] = "unstarted" => i <= j

Yielded(state) == state \in {"yielded_ok", "yielded_err"}

\* A mutant of NextOutgoing: an output that has completed is yielded before
\* the outputs in front of it in the stream (buffer_unordered in place of
\* buffered).
NextOutgoingCompleted ==
    IF \E i \in Tasks : task_state[i] \in {"done_ok", "done_err"}
    THEN CHOOSE i \in Tasks :
            /\ task_state[i] \in {"done_ok", "done_err"}
            /\ \A j \in Tasks :
                  task_state[j] \in {"done_ok", "done_err"} => i <= j
    ELSE IF \A i \in Tasks : Yielded(task_state[i]) THEN n_tasks + 1
    ELSE CHOOSE i \in Tasks :
            /\ ~Yielded(task_state[i])
            /\ \A j \in Tasks : ~Yielded(task_state[j]) => i <= j

\* FuturesOrdered::next_outgoing_index: the first future whose output has
\* not been yielded.
NextOutgoing ==
    IF \A i \in Tasks : Yielded(task_state[i]) THEN n_tasks + 1
    ELSE CHOOSE i \in Tasks :
            /\ ~Yielded(task_state[i])
            /\ \A j \in Tasks : ~Yielded(task_state[j]) => i <= j

\* The output next in order has completed and is queued.
QueuedNext ==
    /\ NextOutgoing \in Tasks
    /\ task_state[NextOutgoing] \in {"done_ok", "done_err"}

\* A mutant of AfterYield: the outputs are collected to the end of the
\* stream (collect in place of try_collect).
AfterYieldCollectAll(outcome) == "fill"

\* try_collect (main.rs:129-130): an Err output ends the run with it, an Ok
\* output is collected and the stream polled again.
AfterYield(outcome) == IF outcome = "err" THEN "returned_err" ELSE "fill"

\* What becomes of a future when the stream is dropped.
Drop(state) ==
    CASE state = "running" -> "dropped"
      [] state = "pushed" -> "dropped_unpolled"
      [] OTHER -> state

\* try_collect receives the output of future i.
Yield(i, outcome) ==
    LET pc == AfterYield(outcome)
        yielded == [task_state EXCEPT ![i] =
                        IF outcome = "err" THEN "yielded_err" ELSE "yielded_ok"]
    IN  /\ executor_pc' = pc
        /\ task_state' =
              IF pc = "returned_err"
              THEN [j \in Tasks |-> Drop(yielded[j])]
              ELSE yielded

InitExecutor ==
    /\ SanitizerIdle
    /\ BuilderIdle
    /\ ResolverIdle
    /\ NormalizerIdle
    /\ EmbedIdle
    /\ DiscoveryIdle
    /\ parallel \in 0..MaxParallel
    /\ n_tasks \in 0..MaxTasks
    /\ task_state = [i \in 1..n_tasks |-> "unstarted"]
    /\ executor_pc = "fill"

\* Buffered::poll_next pulls the next future of the stream into its queue.
Admit ==
    /\ executor_pc = "fill"
    /\ HasFreeSlot
    /\ StreamHasNext
    /\ task_state' = [task_state EXCEPT ![NextIncoming] = "pushed"]
    /\ UNCHANGED <<parallel, n_tasks, executor_pc, notExecutorVars>>

\* The queue is full or the stream is at its end: the queue is polled.
FillDone ==
    /\ executor_pc = "fill"
    /\ ~(HasFreeSlot /\ StreamHasNext)
    /\ executor_pc' = "poll"
    /\ UNCHANGED <<parallel, n_tasks, task_state, notExecutorVars>>

\* FuturesOrdered::poll_next: the output next in order is queued already.
YieldQueued ==
    /\ executor_pc = "poll"
    /\ QueuedNext
    /\ Yield(NextOutgoing,
             IF task_state[NextOutgoing] = "done_err" THEN "err" ELSE "ok")
    /\ UNCHANGED <<parallel, n_tasks, notExecutorVars>>

\* A future of the queue is polled for the first time: the download starts.
\* FuturesUnordered polls the futures pushed to it in the order of its
\* ready-to-run queue, which push enters at the tail.
FirstPoll(i) ==
    /\ executor_pc = "poll"
    /\ ~QueuedNext
    /\ task_state[i] = "pushed"
    /\ \A j \in Tasks : task_state[j] = "pushed" => i <= j
    /\ task_state' = [task_state EXCEPT ![i] = "running"]
    /\ UNCHANGED <<parallel, n_tasks, executor_pc, notExecutorVars>>

\* A running future completes: its output is yielded if it is next in
\* order, and queued otherwise.
Settle(i, outcome) ==
    /\ executor_pc = "poll"
    /\ ~QueuedNext
    /\ task_state[i] = "running"
    /\ IF i = NextOutgoing
       THEN Yield(i, outcome)
       ELSE /\ task_state' = [task_state EXCEPT ![i] =
                  IF outcome = "err" THEN "done_err" ELSE "done_ok"]
            /\ UNCHANGED executor_pc
    /\ UNCHANGED <<parallel, n_tasks, notExecutorVars>>

\* The stream is at its end and the queue is empty: try_collect returns Ok.
StreamEnd ==
    /\ executor_pc = "poll"
    /\ BufferLen = 0
    /\ ~StreamHasNext
    /\ executor_pc' = "returned_ok"
    /\ UNCHANGED <<parallel, n_tasks, task_state, notExecutorVars>>

NextExecutor ==
    \/ Admit
    \/ FillDone
    \/ YieldQueued
    \/ \E i \in Tasks : FirstPoll(i)
    \/ \E i \in Tasks : \E outcome \in {"ok", "err"} : Settle(i, outcome)
    \/ StreamEnd

SpecExecutor == InitExecutor /\ [][NextExecutor]_vars

----------------------------------------------------------------------------
(* download_embed and child_read_to_end (main.rs:477-575): the helper is   *)
(* spawned with both output streams piped; a task per stream reads its     *)
(* lines, a third awaits the exit of the child, and try_join! joins the    *)
(* three.                                                                  *)

ExitCodes == {0, 1}

notEmbedVars ==
    <<resolverVars, normalizerVars, executorVars, discoveryVars,
      sanitizerVars, builderVars>>

InitEmbed ==
    /\ SanitizerIdle
    /\ BuilderIdle
    /\ DiscoveryIdle
    /\ ResolverIdle
    /\ NormalizerIdle
    /\ ExecutorIdle
    /\ embed_pc = "start"
    /\ child = "none"
    /\ exit_code = 0
    /\ to_write \in [Streams -> 0..MaxLines]
    /\ pipe = [s \in Streams |-> 0]
    /\ reader = [s \in Streams |-> "none"]
    /\ waiter = "none"

\* main.rs:487-499 and 516-538: the helper starts; the two readers and the
\* task awaiting its exit are spawned.
SpawnChild ==
    /\ embed_pc = "start"
    /\ embed_pc' = "joining"
    /\ child' = "running"
    /\ reader' = [s \in Streams |-> "reading"]
    /\ waiter' = "waiting"
    /\ UNCHANGED <<exit_code, to_write, pipe, notEmbedVars>>

\* main.rs:499-500: the helper does not start; download_embed returns the
\* error.
SpawnFails ==
    /\ embed_pc = "start"
    /\ embed_pc' = "returned_err"
    /\ child' = "spawn_failed"
    /\ UNCHANGED <<exit_code, to_write, pipe, reader, waiter, notEmbedVars>>

\* The helper writes a line to a stream whose pipe has room.
ChildWrites(s) ==
    /\ child = "running"
    /\ to_write[s] > 0
    /\ pipe[s] < PipeCapacity
    /\ to_write' = [to_write EXCEPT ![s] = @ - 1]
    /\ pipe' = [pipe EXCEPT ![s] = @ + 1]
    /\ UNCHANGED <<embed_pc, child, exit_code, reader, waiter, notEmbedVars>>

\* The helper has written its output and exits.
ChildExits(code) ==
    /\ child = "running"
    /\ \A s \in Streams : to_write[s] = 0
    /\ child' = "exited"
    /\ exit_code' = code
    /\ UNCHANGED <<embed_pc, to_write, pipe, reader, waiter, notEmbedVars>>

\* A mutant of ReadsLine: the streams are read once the child has been
\* waited for, not while it runs.
ReadsLineAfterExit(s) ==
    /\ waiter = "done"
    /\ reader[s] = "reading"
    /\ pipe[s] > 0
    /\ pipe' = [pipe EXCEPT ![s] = @ - 1]
    /\ UNCHANGED <<embed_pc, child, exit_code, to_write, reader, waiter,
                   notEmbedVars>>

\* consume_stream (main.rs:569-571): a line is read and logged.
ReadsLine(s) ==
    /\ reader[s] = "reading"
    /\ pipe[s] > 0
    /\ pipe' = [pipe EXCEPT ![s] = @ - 1]
    /\ UNCHANGED <<embed_pc, child, exit_code, to_write, reader, waiter,
                   notEmbedVars>>

\* main.rs:569: next_line fails (a line that is not UTF-8, a read error).
ReadFails(s) ==
    /\ reader[s] = "reading"
    /\ pipe[s] > 0
    /\ reader' = [reader EXCEPT ![s] = "failed"]
    /\ UNCHANGED <<embed_pc, child, exit_code, to_write, pipe, waiter,
                   notEmbedVars>>

\* main.rs:569-573: the stream is at its end.
ReadsEnd(s) ==
    /\ reader[s] = "reading"
    /\ pipe[s] = 0
    /\ child = "exited"
    /\ reader' = [reader EXCEPT ![s] = "done"]
    /\ UNCHANGED <<embed_pc, child, exit_code, to_write, pipe, waiter,
                   notEmbedVars>>

\* main.rs:528-533: child.wait() returned the exit status; the status is
\* not looked at.
WaitResult(code) == "done"

WaitReturns ==
    /\ waiter = "waiting"
    /\ child = "exited"
    /\ waiter' = WaitResult(exit_code)
    /\ UNCHANGED <<embed_pc, child, exit_code, to_write, pipe, reader,
                   notEmbedVars>>

\* main.rs:528-531: child.wait() returns an error.
WaitFails ==
    /\ waiter = "waiting"
    /\ child = "exited"
    /\ waiter' = "failed"
    /\ UNCHANGED <<embed_pc, child, exit_code, to_write, pipe, reader,
                   notEmbedVars>>

\* main.rs:540-547 and 502-510: the three joined tasks returned Ok.
JoinOk ==
    /\ embed_pc = "joining"
    /\ \A s \in Streams : reader[s] = "done"
    /\ waiter = "done"
    /\ embed_pc' = "returned_ok"
    /\ UNCHANGED <<child, exit_code, to_write, pipe, reader, waiter,
                   notEmbedVars>>

\* main.rs:540-545: try_join! returns the first error of the three.
JoinErr ==
    /\ embed_pc = "joining"
    /\ \/ \E s \in Streams : reader[s] = "failed"
       \/ waiter = "failed"
    /\ embed_pc' = "returned_err"
    /\ UNCHANGED <<child, exit_code, to_write, pipe, reader, waiter,
                   notEmbedVars>>

NextEmbed ==
    \/ SpawnChild
    \/ SpawnFails
    \/ \E s \in Streams : ChildWrites(s)
    \/ \E code \in ExitCodes : ChildExits(code)
    \/ \E s \in Streams : ReadsLine(s)
    \/ \E s \in Streams : ReadFails(s)
    \/ \E s \in Streams : ReadsEnd(s)
    \/ WaitReturns
    \/ WaitFails
    \/ JoinOk
    \/ JoinErr

SpecEmbed == InitEmbed /\ [][NextEmbed]_vars

\* The scheduling: download_embed runs on; the helper, a process of its
\* own, writes and exits; the two readers and the task awaiting the exit are
\* tasks of their own (tokio::spawn, main.rs:527 and 567), and try_join! is
\* woken when one of them ends.
SpecEmbedFair ==
    /\ SpecEmbed
    /\ WF_vars(SpawnChild \/ SpawnFails)
    /\ WF_vars(\/ \E s \in Streams : ChildWrites(s)
               \/ \E code \in ExitCodes : ChildExits(code))
    /\ \A s \in Streams : WF_vars(ReadsLine(s) \/ ReadFails(s) \/ ReadsEnd(s))
    /\ WF_vars(WaitReturns \/ WaitFails)
    /\ WF_vars(JoinOk \/ JoinErr)

----------------------------------------------------------------------------
(* json.rs:75-119: ContentBlock, Good, DigitalGood, WistiaData, Asset and  *)
(* FileAsset.  An Option is a sequence: <<>> for None, <<x>> for Some(x).  *)
(* The embed URLs of the text of a block stand for the text               *)
(* (main.rs:421-427).                                                      *)

Absent == <<>>

Some(x) == <<x>>

IsSome(option) == option # <<>>

Unwrap(option) == option[1]

MissingFile == "https://api.elopage.com/pca/digitals/files/original/missing.png"

FileUrl == "https://cdn.example/files/a.pdf"

EmbedUrl == "https://player.vimeo.com/video/1"

\* The URL of variant k of a hosted video.
AssetUrl(k) == <<"https://cdn.example/video", k>>

Asset(url, file_size) == [url |-> url, file_size |-> file_size]

FileAsset(name, original) == [name |-> name, original |-> original]

WistiaData(name, type, assets) ==
    [name |-> name, type |-> type, assets |-> assets]

DigitalGood(wistia_data, file) == [wistia_data |-> wistia_data, file |-> file]

ContentBlock(children, embed_urls, goods) ==
    [children |-> children, embed_urls |-> embed_urls, goods |-> goods]

----------------------------------------------------------------------------
(* The futures of the stream (main.rs:436, 454, 461). *)

EmbedFuture(embed_url) ==
    [kind |-> "download_embed", embed_url |-> embed_url, file |-> Absent,
     wistia_data |-> Absent]

FileFuture(file) ==
    [kind |-> "download_file", embed_url |-> Absent, file |-> Some(file),
     wistia_data |-> Absent]

VideoFuture(wistia_data) ==
    [kind |-> "download_video", embed_url |-> Absent, file |-> Absent,
     wistia_data |-> Some(wistia_data)]

\* main.rs:444-464: the futures of one good.
GoodFutures(good) ==
    (IF IsSome(good.file) THEN <<FileFuture(Unwrap(good.file))>> ELSE <<>>)
    \o (IF IsSome(good.wistia_data)
        THEN <<VideoFuture(Unwrap(good.wistia_data))>> ELSE <<>>)

RECURSIVE GoodsFutures(_)
GoodsFutures(goods) ==
    IF goods = <<>> THEN <<>>
    ELSE GoodFutures(Head(goods)) \o GoodsFutures(Tail(goods))

\* main.rs:402-473: the futures of the blocks, in the order of the stream:
\* for every block those of its children, then those of the embeds of its
\* text, then those of its goods.
RECURSIVE download_content_block_assets_recursive(_)
download_content_block_assets_recursive(blocks) ==
    IF blocks = <<>> THEN <<>>
    ELSE LET content_block == Head(blocks)
         IN  download_content_block_assets_recursive(content_block.children)
             \o (IF IsSome(content_block.embed_urls)
                 THEN LET embed_urls == Unwrap(content_block.embed_urls)
                      IN  [k \in DOMAIN embed_urls |->
                              EmbedFuture(Some(embed_urls[k]))]
                 ELSE <<>>)
             \o (IF IsSome(content_block.goods)
                 THEN GoodsFutures(Unwrap(content_block.goods))
                 ELSE <<>>)
             \o download_content_block_assets_recursive(Tail(blocks))

----------------------------------------------------------------------------
(* download_file and download_video (main.rs:579-605).  What running a     *)
(* future does is [calls |-> the calls of download, in order, end |-> "ok",*)
(* "err" or "panic"]; `fails` says whether the call of download, or the    *)
(* helper of an embed, returns an error.                                   *)

DownloadCall(url, name) == [url |-> url, name |-> name]

NoCall == [calls |-> <<>>, end |-> "ok"]

Ended(calls, fails) == [calls |-> calls, end |-> IF fails THEN "err" ELSE "ok"]

\* A mutant of download_file: the missing file is downloaded like any other.
download_file_any(file, fails) ==
    IF IsSome(file.original)
    THEN Ended(<<DownloadCall(Unwrap(file.original), file.name)>>, fails)
    ELSE NoCall

\* main.rs:579-589.
download_file(file, fails) ==
    IF IsSome(file.original)
    THEN IF Unwrap(file.original) = MissingFile
         THEN NoCall
         ELSE Ended(<<DownloadCall(Unwrap(file.original), file.name)>>, fails)
    ELSE NoCall

\* Iterator::max_by_key (main.rs:597): the last of the assets of the
\* largest file_size.
RECURSIVE LargestFrom(_, _, _)
LargestFrom(assets, k, best) ==
    IF k > Len(assets) THEN best
    ELSE LargestFrom(assets, k + 1,
                     IF assets[k].file_size >= assets[best].file_size
                     THEN k ELSE best)

LargestAsset(assets) == assets[LargestFrom(assets, 2, 1)]

\* main.rs:593-605.
download_video(wistia_data, fails) ==
    IF IsSome(wistia_data.assets)
    THEN IF wistia_data.type # Some("Video")
         THEN [calls |-> <<>>, end |-> "panic"]      \* assert!, main.rs:595
         ELSE IF Unwrap(wistia_data.assets) # <<>>
              THEN Ended(<<DownloadCall(
                              LargestAsset(Unwrap(wistia_data.assets)).url,
                              wistia_data.name)>>, fails)
              ELSE NoCall
    ELSE NoCall

\* What a future of the stream does when it is run.
RunFuture(future, fails) ==
    CASE future.kind = "download_embed" -> Ended(<<>>, fails)
      [] future.kind = "download_file" ->
            download_file(Unwrap(future.file), fails)
      [] future.kind = "download_video" ->
            download_video(Unwrap(future.wistia_data), fails)

----------------------------------------------------------------------------
(* The content of a lesson: one block with at most one child block.  The   *)
(* child carries no goods list, an empty one, or one good of any kind; the *)
(* outer block carries an embed, a named file, both or neither.            *)

Sizes == {50, 100, 500}

\* The asset lists of n variants.
AssetLists(n) ==
    { [k \in 1..n |-> Asset(AssetUrl(k), sizes[k])] :
        sizes \in [1..n -> Sizes] }

WistiaDatas ==
    {Absent} \cup
    { Some(WistiaData(Some("video.mp4"), type, assets)) :
        type \in {Absent, Some("Video"), Some("Audio")},
        assets \in {Absent} \cup
            { Some(list) : list \in
                  UNION { AssetLists(n) : n \in 0..MaxVariants } } }

FileAssets ==
    {Absent} \cup
    { Some(FileAsset(name, original)) :
        name \in {Absent, Some("a.pdf")},
        original \in {Absent, Some(MissingFile), Some(FileUrl)} }

InnerGoods ==
    {Absent, Some(<<>>)} \cup
    { Some(<<DigitalGood(wistia_data, file)>>) :
        wistia_data \in WistiaDatas, file \in FileAssets }

InnerBlocks ==
    {<<>>} \cup { <<ContentBlock(<<>>, Absent, goods)>> : goods \in InnerGoods }

OuterGoods ==
    {Absent,
     Some(<<DigitalGood(Absent, Some(FileAsset(Some("b.pdf"), Some(FileUrl))))>>)}

notDiscoveryVars ==
    <<resolverVars, normalizerVars, executorVars, embedVars,
      sanitizerVars, builderVars>>

InitDiscovery ==
    /\ SanitizerIdle
    /\ BuilderIdle
    /\ ResolverIdle
    /\ NormalizerIdle
    /\ ExecutorIdle
    /\ EmbedIdle
    /\ \E children \in InnerBlocks, embed_urls \in {Absent, Some(<<EmbedUrl>>)},
          goods \in OuterGoods :
            content_blocks = <<ContentBlock(children, embed_urls, goods)>>
    /\ futures = <<>>
    /\ results = <<>>
    /\ downloads = <<>>
    /\ discovery_pc = "fetched"

\* main.rs:328-332: the stream of the futures of the lesson is made.
Discover ==
    /\ discovery_pc = "fetched"
    /\ futures' = download_content_block_assets_recursive(content_blocks)
    /\ discovery_pc' = "running"
    /\ UNCHANGED <<content_blocks, results, downloads, notDiscoveryVars>>

\* The next future of the stream is run to its end.  An error ends the run
\* (try_collect, main.rs:129-130), a panic aborts it.
RunNext(fails) ==
    /\ discovery_pc = "running"
    /\ Len(results) < Len(futures)
    /\ LET i == Len(results) + 1
           run == RunFuture(futures[i], fails)
       IN  /\ results' = Append(results, run.end)
           /\ downloads' = downloads \o
                 [k \in DOMAIN run.calls |->
                     [future |-> i, url |-> run.calls[k].url,
                      name |-> run.calls[k].name]]
           /\ discovery_pc' = CASE run.end = "ok" -> "running"
                                [] run.end = "err" -> "returned_err"
                                [] run.end = "panic" -> "panicked"
    /\ UNCHANGED <<content_blocks, futures, notDiscoveryVars>>

\* Every future of the stream has returned Ok.
AllDone ==
    /\ discovery_pc = "running"
    /\ Len(results) = Len(futures)
    /\ discovery_pc' = "returned_ok"
    /\ UNCHANGED <<content_blocks, futures, results, downloads,
                   notDiscoveryVars>>

NextDiscovery ==
    \/ Discover
    \/ \E fails \in BOOLEAN : RunNext(fails)
    \/ AllDone

SpecDiscovery == InitDiscovery /\ [][NextDiscovery]_vars

----------------------------------------------------------------------------
(* safe_path (main.rs:639-648).  A string is the sequence of its chars.    *)

\* char::is_whitespace, on the chars the names are made of.
is_whitespace(c) == c = " "

\* The character references of the names: "&amp;" and "&quot;".  No name
\* below holds "&amp" or "&quot" without its semicolon, a numeric reference
\* or another named one.
Entities ==
    { [reference |-> <<"&", "a", "m", "p", ";">>, char |-> "&"],
      [reference |-> <<"&", "q", "u", "o", "t", ";">>, char |-> "\""] }

\* The strings of a sequence, one after the other.
RECURSIVE ConcatRange(_, _, _)
ConcatRange(strings, first, last) ==
    IF first > last THEN <<>>
    ELSE IF first = last THEN strings[first]
    ELSE LET middle == (first + last) \div 2
         IN  ConcatRange(strings, first, middle)
                 \o ConcatRange(strings, middle + 1, last)

Concat(strings) == ConcatRange(strings, 1, Len(strings))

\* str::match_indices(from): the matches of from in s that do not overlap,
\* from the left: from is found at i and no earlier match covers i.
RECURSIVE is_match(_, _, _)
is_match(s, from, i) ==
    /\ i >= 1
    /\ i + Len(from) - 1 <= Len(s)
    /\ SubSeq(s, i, i + Len(from) - 1) = from
    /\ \A j \in (i - Len(from) + 1)..(i - 1) : ~is_match(s, from, j)

match_indices(s, from) == { i \in DOMAIN s : is_match(s, from, i) }

\* The chars of s with every match replaced: the match at i, of
\* length[i] chars, becomes to[i], the other chars it covers become
\* nothing.
Replaced(s, length, to) ==
    Concat([i \in DOMAIN s |->
              IF i \in DOMAIN to THEN to[i]
              ELSE IF \E j \in DOMAIN to : j < i /\ i < j + length[j]
                   THEN <<>>
                   ELSE <<s[i]>>])

EntityAt(s, i) ==
    { e \in Entities : is_match(s, e.reference, i) }

\* htmlize::unescape: one pass from the left; the text a reference expands
\* to is not looked at again.
unescape(s) ==
    LET starts == { i \in DOMAIN s : EntityAt(s, i) # {} }
        entity == [i \in starts |-> CHOOSE e \in EntityAt(s, i) : TRUE]
    IN  Replaced(s, [i \in starts |-> Len(entity[i].reference)],
                 [i \in starts |-> <<entity[i].char>>])

\* str::replace(from, to).
replace(s, from, to) ==
    LET starts == match_indices(s, from)
    IN  Replaced(s, [i \in starts |-> Len(from)], [i \in starts |-> to])

\* str::replace([chars], ""): every char of the set is removed.
replace_chars(s, chars) == SelectSeq(s, LAMBDA c : c \notin chars)

\* str::trim: without the whitespace at both ends.
trim(s) ==
    LET kept == { i \in DOMAIN s : ~is_whitespace(s[i]) }
    IN  IF kept = {} THEN <<>>
        ELSE SubSeq(s, CHOOSE i \in kept : \A j \in kept : i <= j,
                       CHOOSE i \in kept : \A j \in kept : j <= i)

safe_path_untrimmed(s) ==
    replace_chars(
        replace(
            replace(
                replace(replace(unescape(s), <<":", " ">>, <<" ", "-", " ">>),
                        <<" ", "/", " ">>, <<" ", "-", " ">>),
                <<"/">>, <<" ", "-", " ">>),
            <<"*">>, <<"-">>),
        {"?", "\"", ":"})

safe_path_not_trimmed(s) == safe_path_untrimmed(s)

safe_path(s) == trim(safe_path_untrimmed(s))

\* The names: up to MaxPieces of these pieces in a row, the name of the
\* scenario, a name of 300 chars and the names of ReplacementNames.
Pieces ==
    { <<"&">>, <<"a", "m", "p", ";">>, <<"a", "m">>, <<"p", ";">>,
      <<"q", "u", "o", "t", ";">>, <<"?">>, <<":">>, <<" ">>, <<"/">>,
      <<"*">>, <<"\"">>, <<"x">> }

ScenarioName ==
    <<"M", "o", "d", "u", "l", "e", " ", "3", ":", " ", "I", "n", "t", "r",
      "o", " ", "/", " ", "S", "e", "t", "u", "p", "?">>

LongName == [i \in 1..300 |-> "x"]

\* One replaced pattern between two plain chars.
ReplacementNames ==
    { <<"x", ":", " ", "x">>, <<"x", " ", "/", " ", "x">>,
      <<"x", "/", "x">>, <<"x", "*", "x">> }

notSanitizerVars ==
    <<resolverVars, normalizerVars, executorVars, embedVars, discoveryVars,
      builderVars>>

InitSanitizer ==
    /\ BuilderIdle
    /\ ResolverIdle
    /\ NormalizerIdle
    /\ ExecutorIdle
    /\ EmbedIdle
    /\ DiscoveryIdle
    /\ \/ \E n \in 0..MaxPieces :
            \E pieces \in [1..n -> Pieces] : raw_name = Concat(pieces)
       \/ raw_name \in {ScenarioName, LongName} \cup ReplacementNames
    /\ sanitized = <<>>
    /\ resanitized = <<>>
    /\ sanitizer_pc = "named"

\* safe_path(&name), as at main.rs:275, 307 and 619.
Sanitize ==
    /\ sanitizer_pc = "named"
    /\ sanitized' = safe_path(raw_name)
    /\ sanitizer_pc' = "sanitized"
    /\ UNCHANGED <<raw_name, resanitized, notSanitizerVars>>

\* safe_path of a name that safe_path returned.
SanitizeAgain ==
    /\ sanitizer_pc = "sanitized"
    /\ resanitized' = safe_path(sanitized)
    /\ sanitizer_pc' = "resanitized"
    /\ UNCHANGED <<raw_name, sanitized, notSanitizerVars>>

NextSanitizer ==
    \/ Sanitize
    \/ SanitizeAgain

SpecSanitizer == InitSanitizer /\ [][NextSanitizer]_vars

----------------------------------------------------------------------------
(* process_tree_recursive (main.rs:250-352) and the run of the stream it   *)
(* returns (main.rs:116-130).  The items of the tree are processed one at  *)
(* a time (stream::iter(..).then(..), driven by try_next), and the         *)
(* recursion for the children of a category is awaited inside the step of  *)
(* the category: the items are processed in depth-first order, and an      *)
(* error leaves every level of the recursion through `?`.                  *)

ItemName == <<"m", ":", " ", "x">>

TreeItem == [name |-> ItemName]

\* The file and video assets of a lesson: a display name, if any, and the
\* last path segment of the URL.
Assets ==
    { [name |-> Some(<<"a">>), last_segment |-> <<"f">>],
      [name |-> Absent, last_segment |-> <<"a">>] }

\* The module trees of at most n items.
RECURSIVE ModuleTrees(_)
ModuleTrees(n) ==
    IF n = 0 THEN { <<>> }
    ELSE {<<>>}
         \cup { <<Lesson(TreeItem)>> \o rest : rest \in ModuleTrees(n - 1) }
         \cup UNION { { <<Category(TreeItem, children)>> \o rest :
                            children \in ModuleTrees(k),
                            rest \in ModuleTrees(n - 1 - k) } :
                      k \in 0..(n - 1) }

\* main.rs:272-276 and 304-308: format!("{:0>2} {}", index + 1,
\* safe_path(&name)), the index counted from 0.
DirName(index, item_name) ==
    [index |-> index + 1, name |-> safe_path(item_name)]

\* main.rs:611-619: the display name, else the last path segment of the
\* URL, made safe; a file name carries no index.
FileName(asset) ==
    [index |-> 0,
     name |-> safe_path(IF IsSome(asset.name) THEN Unwrap(asset.name)
                        ELSE asset.last_segment)]

\* The items of a tree in the order process_tree_recursive processes them,
\* each with the path of its directory.
RECURSIVE TreeItems(_, _)
TreeItems(tree, base_path) ==
    Concat([i \in DOMAIN tree |->
        LET tree_item == tree[i]
            path == Append(base_path, DirName(i - 1, tree_item.item.name))
        IN  IF tree_item.kind = "Category"
            THEN <<[kind |-> "Category", path |-> path]>>
                     \o TreeItems(tree_item.children, path)
            ELSE <<[kind |-> "Lesson", path |-> path]>>])

\* main.rs:328-332 and 432-461: the download futures of a lesson, each with
\* the path of the lesson.
LessonStream(lesson, path, assets) ==
    [k \in DOMAIN assets |->
        [lesson |-> lesson, path |-> path, asset |-> assets[k]]]

\* A mutant of Chain: the stream of the item is put in front.
ChainInFront(stream, next_stream) == next_stream \o stream

\* main.rs:347: downloads_stream.chain(next_stream).
Chain(stream, next_stream) == stream \o next_stream

\* A mutant of AfterCreateDir: the error of create_dir_all is dropped.
AfterCreateDirIgnored(created) == "processing"

\* main.rs:278-281 and 309-312: create_dir_all(..).await.wrap_err(..)?
AfterCreateDir(created) == IF created THEN "processing" ELSE "returned_err"

\* A mutant of ReadyToDownload: the stream built so far is run although
\* process_tree_recursive returned an error.
ReadyToDownloadAfterError == builder_pc \in {"processed", "returned_err"}

\* A mutant of ReadyToDownload: the stream is run as soon as it holds a
\* future.
ReadyToDownloadEarly == downloads_stream # <<>>

\* main.rs:116-123: process_tree_recursive(..).await? has returned the
\* stream.
ReadyToDownload == builder_pc = "processed"

notBuilderVars ==
    <<resolverVars, normalizerVars, embedVars, discoveryVars, sanitizerVars>>

InitBuilder ==
    /\ ResolverIdle
    /\ NormalizerIdle
    /\ ExecutorIdle
    /\ EmbedIdle
    /\ DiscoveryIdle
    /\ SanitizerIdle
    /\ course_tree \in ModuleTrees(MaxNodes)
    /\ tree_items = TreeItems(course_tree, <<>>)
    /\ visit = 1
    /\ visit_step = "dir"
    /\ dirs = {}
    /\ downloads_stream = <<>>
    /\ failed_at = 0
    /\ builder_pc = "processing"

\* main.rs:278-281 and 309-312: the directory of the item is created, or
\* is not.
CreateDir(created) ==
    /\ builder_pc = "processing"
    /\ visit_step = "dir"
    /\ visit <= Len(tree_items)
    /\ builder_pc' = AfterCreateDir(created)
    /\ IF created
       THEN /\ dirs' = dirs \cup {tree_items[visit].path}
            /\ UNCHANGED failed_at
       ELSE /\ failed_at' = visit
            /\ UNCHANGED dirs
    /\ IF builder_pc' = "processing"
       THEN IF tree_items[visit].kind = "Category"
            THEN /\ visit' = visit + 1
                 /\ UNCHANGED visit_step
            ELSE /\ visit_step' = "fetch"
                 /\ UNCHANGED visit
       ELSE UNCHANGED <<visit, visit_step>>
    /\ UNCHANGED <<course_tree, tree_items, downloads_stream, executorVars,
                   notBuilderVars>>

\* main.rs:315-334 and 346-348: the content of the lesson is fetched and
\* the stream of its download futures chained to the stream.
FetchContent(assets) ==
    /\ builder_pc = "processing"
    /\ visit_step = "fetch"
    /\ Len(downloads_stream) + Len(assets) <= MaxAssets
    /\ downloads_stream' =
          Chain(downloads_stream,
                LessonStream(visit, tree_items[visit].path, assets))
    /\ visit' = visit + 1
    /\ visit_step' = "dir"
    /\ UNCHANGED <<course_tree, tree_items, dirs, failed_at, builder_pc,
                   executorVars,
                   notBuilderVars>>

\* main.rs:315-324: the lesson has no content page id, or the request
\* fails.
FetchFails ==
    /\ builder_pc = "processing"
    /\ visit_step = "fetch"
    /\ builder_pc' = "returned_err"
    /\ UNCHANGED <<course_tree, tree_items, visit, visit_step, dirs,
                   downloads_stream, failed_at, executorVars, notBuilderVars>>

\* main.rs:346-351: the last item has been processed.
TreeProcessed ==
    /\ builder_pc = "processing"
    /\ visit > Len(tree_items)
    /\ builder_pc' = "processed"
    /\ UNCHANGED <<course_tree, tree_items, visit, visit_step, dirs,
                   downloads_stream, failed_at, executorVars, notBuilderVars>>

\* main.rs:126-127: downloads_stream.buffered(args.parallel.clamp(..)).
StartDownloads(args_parallel) ==
    /\ ReadyToDownload
    /\ executor_pc = "idle"
    /\ parallel' = args_parallel
    /\ n_tasks' = Len(downloads_stream)
    /\ task_state' = [i \in 1..Len(downloads_stream) |-> "unstarted"]
    /\ executor_pc' = "fill"
    /\ UNCHANGED <<builderVars, notBuilderVars>>

LessonAssets(n) == UNION { [1..k -> Assets] : k \in 0..n }

\* The values of --parallel of the runs: one download at a time, and two.
Parallelism == {1, 2}

NextBuilder ==
    \/ \E created \in BOOLEAN : CreateDir(created)
    \/ \E assets \in LessonAssets(MaxAssets) : FetchContent(assets)
    \/ FetchFails
    \/ TreeProcessed
    \/ \E args_parallel \in Parallelism : StartDownloads(args_parallel)
    \/ NextExecutor

SpecBuilder == InitBuilder /\ [][NextBuilder]_vars

----------------------------------------------------------------------------
(* What the resolver claims speak of. *)

ItemIds(list) == { list[i].id : i \in DOMAIN list }

ItemById(list, id) == list[CHOOSE i \in DOMAIN list : list[i].id = id]

\* The ids of the nodes of a tree, level by level in depth-first order.
RECURSIVE TreeIds(_)
TreeIds(tree) ==
    IF tree = <<>> THEN <<>>
    ELSE LET node == Head(tree)
         IN  <<node.item.id>>
             \o (IF node.kind = "Category" THEN TreeIds(node.children) ELSE <<>>)
             \o TreeIds(Tail(tree))

SeqRange(s) == { s[i] : i \in DOMAIN s }

\* Every item of the list is a node of the tree, and is so once.
EveryItemOnceInTree(list, tree) ==
    /\ Len(TreeIds(tree)) = Len(list)
    /\ SeqRange(TreeIds(tree)) = ItemIds(list)

\* The items whose parent_id is the id of no item of the list.
Dangling(list) ==
    { list[i].id : i \in { j \in DOMAIN list :
          /\ list[j].parent_id # None
          /\ list[j].parent_id \notin ItemIds(list) } }

\* Every parent_id that is the id of an item is the id of a category.
ParentsAreCategories(list) ==
    \A i \in DOMAIN list :
        list[i].parent_id \in ItemIds(list)
            => ItemById(list, list[i].parent_id).is_category

\* Following parent_id from the item `id` ends (at a root item, or at an
\* item whose parent is missing) within `fuel` steps.
RECURSIVE ParentChainEnds(_, _, _)
ParentChainEnds(list, id, fuel) ==
    LET parent_id == ItemById(list, id).parent_id
    IN  \/ parent_id \notin ItemIds(list)
        \/ /\ fuel > 0
           /\ ParentChainEnds(list, parent_id, fuel - 1)

NoParentCycle(list) ==
    \A id \in ItemIds(list) : ParentChainEnds(list, id, Len(list))

\* The ids of the items parented, directly or not, under an item of `ids`.
RECURSIVE Under(_, _)
Under(list, ids) ==
    LET more == ids \cup { list[i].id : i \in { j \in DOMAIN list :
                              list[j].parent_id \in ids } }
    IN  IF more = ids THEN ids ELSE Under(list, more)

RemainingIds == { remaining_stack[i].id : i \in DOMAIN remaining_stack }

\* In every level of the tree a smaller position comes first.
RECURSIVE LevelsSorted(_)
LevelsSorted(tree) ==
    /\ \A i, j \in DOMAIN tree :
          tree[i].item.position < tree[j].item.position => i < j
    /\ \A i \in DOMAIN tree :
          tree[i].kind = "Category" => LevelsSorted(tree[i].children)

----------------------------------------------------------------------------
(* The resolver claims. *)

\* C1, as stated: when every parent_id of the list is the id of a category
\* of the list, the tree holds every item once and the remaining pool is
\* empty, whether or not the parent chains reach a root item.
C1_AllItemsResolved_AsStated ==
    (/\ resolver_pc = "resolved"
     /\ Dangling(lessons_list) = {}
     /\ ParentsAreCategories(lessons_list))
        => /\ EveryItemOnceInTree(lessons_list, module_tree)
           /\ remaining_stack = <<>>

\* C1, amended: when every parent_id of the list is the id of a category of
\* the list and every parent chain reaches a root item, the tree holds every
\* item once and the remaining pool is empty.
C1_AllItemsResolved ==
    (/\ resolver_pc = "resolved"
     /\ Dangling(lessons_list) = {}
     /\ ParentsAreCategories(lessons_list)
     /\ NoParentCycle(lessons_list))
        => /\ EveryItemOnceInTree(lessons_list, module_tree)
           /\ remaining_stack = <<>>

\* A list of three levels (a category in a category) has been resolved.
C1_Witness ==
    /\ resolver_pc = "resolved"
    /\ Dangling(lessons_list) = {}
    /\ ParentsAreCategories(lessons_list)
    /\ NoParentCycle(lessons_list)
    /\ \E i \in DOMAIN lessons_list :
          /\ lessons_list[i].parent_id # None
          /\ ItemById(lessons_list, lessons_list[i].parent_id).parent_id # None
    /\ remaining_stack = <<>>

\* C2, as stated: when exactly one item X has a parent_id that is the id of
\* no item, and every other parent_id is the id of a category, the remaining
\* pool is X and the items parented under X, none of them in the tree.
C2_UnresolvedRemain_AsStated ==
    (/\ resolver_pc = "resolved"
     /\ Cardinality(Dangling(lessons_list)) = 1
     /\ ParentsAreCategories(lessons_list))
        => /\ remaining_stack # <<>>
           /\ Len(remaining_stack) = Cardinality(RemainingIds)
           /\ RemainingIds = Under(lessons_list, Dangling(lessons_list))
           /\ SeqRange(TreeIds(module_tree)) \cap RemainingIds = {}

\* C2, amended: as stated, for the lists in which no parent references form
\* a cycle (every parent chain ends at a root item or at X).
C2_UnresolvedRemain ==
    (/\ resolver_pc = "resolved"
     /\ Cardinality(Dangling(lessons_list)) = 1
     /\ ParentsAreCategories(lessons_list)
     /\ NoParentCycle(lessons_list))
        => /\ remaining_stack # <<>>
           /\ Len(remaining_stack) = Cardinality(RemainingIds)
           /\ RemainingIds = Under(lessons_list, Dangling(lessons_list))
           /\ SeqRange(TreeIds(module_tree)) \cap RemainingIds = {}

\* A list with a root item, an item X whose parent is missing and an item
\* parented under X has been resolved.
C2_Witness ==
    /\ resolver_pc = "resolved"
    /\ Cardinality(Dangling(lessons_list)) = 1
    /\ ParentsAreCategories(lessons_list)
    /\ NoParentCycle(lessons_list)
    /\ Cardinality(Under(lessons_list, Dangling(lessons_list))) = 2
    /\ module_tree # <<>>
    /\ Len(remaining_stack) = 2

\* C3: in the tree resolve_module_tree returns, at the root and in the
\* children of every category, a sibling with a smaller position comes
\* before a sibling with a larger one.
C3_SiblingsSortedByPosition ==
    resolver_pc = "resolved" => LevelsSorted(module_tree)

\* Two siblings that the list holds in the opposite order of their
\* positions have been resolved into the tree.
C3_Witness ==
    /\ resolver_pc = "resolved"
    /\ \E i, j \in DOMAIN lessons_list :
          /\ i < j
          /\ lessons_list[i].parent_id = lessons_list[j].parent_id
          /\ lessons_list[i].position > lessons_list[j].position
          /\ {lessons_list[i].id, lessons_list[j].id}
                \subseteq SeqRange(TreeIds(module_tree))

----------------------------------------------------------------------------
(* The normalizer claims. *)

\* The root places of `tree` that hold a category, and that hold a lesson.
RootCategories(tree) == { i \in DOMAIN tree : tree[i].kind = "Category" }

RootLessons(tree) == { i \in DOMAIN tree : tree[i].kind = "Lesson" }

\* The place of the root category seen last before place i, or 0.
LatestCategoryBefore(tree, i) ==
    LET before == { j \in RootCategories(tree) : j < i }
    IN  IF before = {} THEN 0
        ELSE CHOOSE j \in before : \A k \in before : k <= j

\* The root lessons that the move rule sends into the category at place c.
MovedInto(tree, c) ==
    { i \in RootLessons(tree) :
        LatestCategoryBefore(tree, i) = c /\ tree[c].children = <<>> }

\* The places of a set, in ascending order.
RECURSIVE Ascending(_)
Ascending(places) ==
    IF places = {} THEN <<>>
    ELSE LET least == CHOOSE i \in places : \A j \in places : i <= j
         IN  <<least>> \o Ascending(places \ {least})

\* The tree the move rule describes.
MoveRuleResult(tree) ==
    LET moved == UNION { MovedInto(tree, c) : c \in RootCategories(tree) }
        kept == Ascending(DOMAIN tree \ moved)
        Kept(i) ==
            IF tree[i].kind = "Category"
            THEN LET lessons == Ascending(MovedInto(tree, i))
                 IN  [tree[i] EXCEPT !.children =
                          @ \o [k \in DOMAIN lessons |-> tree[lessons[k]]]]
            ELSE tree[i]
    IN  [k \in DOMAIN kept |-> Kept(kept[k])]

\* [Category Intro (no children), Lesson L1, Lesson L2, Category Main [X]]
ScenarioTree == RootSequence(<<"E", "L", "L", "C">>)

ScenarioNormalized ==
    <<Category(RootItem(1, TRUE),
               <<Lesson(RootItem(2, FALSE)), Lesson(RootItem(3, FALSE))>>),
      Category(RootItem(4, TRUE), <<Lesson(ChildItem(4, 1, FALSE))>>)>>

\* C7: normalizing a normalized tree changes nothing.
C7_NormalizerIdempotent ==
    normalizer_pc = "normalized"
        => normalize_module_tree(normalized_tree) = normalized_tree

\* A tree in which lessons were moved and a lesson stayed at the root after
\* a category has been normalized.
C7_Witness ==
    /\ normalizer_pc = "normalized"
    /\ normalized_tree # normalizer_in
    /\ \E i, j \in DOMAIN normalized_tree :
          /\ i < j
          /\ normalized_tree[i].kind = "Category"
          /\ normalized_tree[j].kind = "Lesson"

\* C8: every root category stays at the root, in order; a root lesson is
\* appended to the children of the root category seen last before it if and
\* only if that category had no children in the input, and stays at the
\* root, in order, otherwise; children of categories are otherwise
\* unchanged and nested levels are not rescanned.  [Intro [], L1, L2,
\* Main [X]] normalizes to [Intro [L1, L2], Main [X]].
C8_NormalizerMoveRule ==
    normalizer_pc # "panicked"
    /\ (normalizer_pc = "normalized"
          => /\ normalized_tree = MoveRuleResult(normalizer_in)
             /\ (normalizer_in = ScenarioTree
                    => normalized_tree = ScenarioNormalized))

\* The scenario of the claim has been normalized.
C8_Witness ==
    /\ normalizer_pc = "normalized"
    /\ normalizer_in = ScenarioTree
    /\ Len(normalized_tree) = 2

----------------------------------------------------------------------------
(* The executor claims. *)

Running == { i \in Tasks : task_state[i] = "running" }

Smaller(a, b) == IF a < b THEN a ELSE b

Larger(a, b) == IF a < b THEN b ELSE a

FailureObserved == \E i \in Tasks : task_state[i] = "yielded_err"

\* C4: the downloads started and not finished are never more than
\* max(1, parallel); with parallel = 0 the executor works as with a limit of
\* one: whenever it polls its queue, the queue holds max(1, parallel)
\* futures, or every future whose output it has not yielded.
C4_ConcurrencyBound ==
    /\ Cardinality(Running) <= Larger(1, parallel)
    /\ executor_pc = "poll"
          => BufferLen = Smaller(Larger(1, parallel),
                                 Cardinality({ i \in Tasks :
                                     ~Yielded(task_state[i]) }))

\* With --parallel 2, two downloads run while a third waits in the stream.
C4_Witness ==
    /\ parallel = 2
    /\ Cardinality(Running) = 2
    /\ StreamHasNext

----------------------------------------------------------------------------
(* The supervisor claim. *)

\* C6: download_embed returns an error if the helper fails to spawn or
\* exits with a code other than 0, and returns success only when the helper
\* exited with code 0.
C6_NonzeroExitIsError ==
    /\ embed_pc = "returned_ok" => child = "exited" /\ exit_code = 0
    /\ (embed_pc \in {"returned_ok", "returned_err"}
        /\ (child = "spawn_failed" \/ (child = "exited" /\ exit_code # 0)))
          => embed_pc = "returned_err"

----------------------------------------------------------------------------
(* The asset discovery claims. *)

IsMissingFileFuture(future) ==
    /\ future.kind = "download_file"
    /\ Unwrap(future.file).original = Some(MissingFile)

\* The calls of download that future i made.
CallsOf(i) ==
    LET ByFuture(call) == call.future = i
    IN  SelectSeq(downloads, ByFuture)

\* A block whose child block holds one good: a file with the URL of the
\* missing file and a hosted video with variants of the sizes 100, 500, 50.
ScenarioBlocks ==
    <<ContentBlock(
        <<ContentBlock(<<>>, Absent,
            Some(<<DigitalGood(
                Some(WistiaData(Some("video.mp4"), Some("Video"),
                                Some(<<Asset(AssetUrl(1), 100),
                                       Asset(AssetUrl(2), 500),
                                       Asset(AssetUrl(3), 50)>>))),
                Some(FileAsset(Absent, Some(MissingFile))))>>))>>,
        Absent, Absent)>>

\* C9, as stated: a file whose URL is the missing file contributes no
\* future to the stream of downloads.
C9_MissingFileSkipped_AsStated ==
    \A i \in DOMAIN futures : ~IsMissingFileFuture(futures[i])

\* C9, amended: a file whose URL is the missing file contributes a future
\* to the stream like any other file, and that future, when run, calls
\* download for nothing and returns Ok; no download is ever called for the
\* URL of the missing file.  The block of the scenario yields two futures,
\* and the run one download, that of the variant of size 500.
C9_MissingFileSkipped ==
    /\ \A i \in DOMAIN results :
          IsMissingFileFuture(futures[i])
              => results[i] = "ok" /\ CallsOf(i) = <<>>
    /\ \A k \in DOMAIN downloads : downloads[k].url # MissingFile
    /\ (content_blocks = ScenarioBlocks /\ discovery_pc = "returned_ok")
          => /\ Len(futures) = 2
             /\ downloads = <<[future |-> 2, url |-> AssetUrl(2),
                               name |-> Some("video.mp4")]>>

\* The futures of the scenario have been run.
C9_Witness ==
    /\ content_blocks = ScenarioBlocks
    /\ discovery_pc = "returned_ok"
    /\ IsMissingFileFuture(futures[1])
    /\ results = <<"ok", "ok">>

LargestSize(assets) ==
    CHOOSE size \in { assets[k].file_size : k \in DOMAIN assets } :
        \A k \in DOMAIN assets : assets[k].file_size <= size

\* C10: a hosted video with variants makes one call of download, for the
\* URL of a variant of the largest size; a hosted video with no variants,
\* or with no list of them, makes none and returns Ok.
C10_LargestVariant ==
    \A i \in DOMAIN results :
        futures[i].kind = "download_video" =>
            LET wistia_data == Unwrap(futures[i].wistia_data)
            IN  IF IsSome(wistia_data.assets)
                   /\ Unwrap(wistia_data.assets) # <<>>
                THEN LET assets == Unwrap(wistia_data.assets)
                     IN  /\ Len(CallsOf(i)) = 1
                         /\ \E k \in DOMAIN assets :
                              /\ assets[k].url = CallsOf(i)[1].url
                              /\ assets[k].file_size = LargestSize(assets)
                ELSE /\ CallsOf(i) = <<>>
                     /\ results[i] = "ok"

----------------------------------------------------------------------------
(* The path sanitizer.                                                     *)

Sanitized == sanitizer_pc \in {"sanitized", "resanitized"}

\* C11: safe_path of a name that safe_path returned is that name again.
C11_SanitizerIdempotent ==
    sanitizer_pc = "resanitized" => resanitized = sanitized

ForbiddenChars == {"?", "\"", ":", "*", "/"}

ScenarioSanitized ==
    <<"M", "o", "d", "u", "l", "e", " ", "3", " ", "-", " ", "I", "n", "t",
      "r", "o", " ", "-", " ", "S", "e", "t", "u", "p">>

ReplacementOf(pattern) ==
    IF pattern = <<"*">> THEN <<"-">> ELSE <<" ", "-", " ">>

\* C12: the name safe_path returns holds none of ? " : * / and neither
\* starts nor ends with whitespace; ": ", " / " and "/" between two plain
\* chars come out as " - " and "*" as "-"; the name of the scenario comes
\* out as "Module 3 - Intro - Setup".
C12_SanitizerOutput ==
    Sanitized =>
        /\ \A i \in DOMAIN sanitized : sanitized[i] \notin ForbiddenChars
        /\ sanitized # <<>> =>
              /\ ~is_whitespace(sanitized[1])
              /\ ~is_whitespace(sanitized[Len(sanitized)])
        /\ \A pattern \in { <<":", " ">>, <<" ", "/", " ">>, <<"/">>, <<"*">> } :
              raw_name = <<"x">> \o pattern \o <<"x">> =>
                  sanitized = <<"x">> \o ReplacementOf(pattern) \o <<"x">>
        /\ raw_name = ScenarioName => sanitized = ScenarioSanitized

C12_Witness ==
    /\ sanitizer_pc = "sanitized"
    /\ raw_name = ScenarioName
    /\ sanitized = ScenarioSanitized

\* C13: the name safe_path returns is no longer than 200 chars.
C13_SanitizerLengthBound ==
    Sanitized => Len(sanitized) <= 200

----------------------------------------------------------------------------
(* The resolver and the items parented under a lesson.                     *)

RootIds(list) ==
    { list[i].id : i \in { j \in DOMAIN list : list[j].parent_id = None } }

\* The items the recursion takes from the pool: the root items and the
\* items parented, directly or not, under one of them.
ReachedIds(list) == Under(list, RootIds(list))

\* The items whose parent_id is the id of a lesson of the list.
LessonChildren(list) ==
    { list[i].id : i \in { j \in DOMAIN list :
          /\ list[j].parent_id \in ItemIds(list)
          /\ ~ItemById(list, list[j].parent_id).is_category } }

InTree(id) == id \in SeqRange(TreeIds(module_tree))

\* C16: an item whose parent is a lesson of the tree is in the tree too,
\* attached to that lesson.
C16_LessonChildrenKept ==
    resolver_pc = "resolved" =>
        \A id \in LessonChildren(lessons_list) :
            InTree(ItemById(lessons_list, id).parent_id) => InTree(id)

----------------------------------------------------------------------------
(* The supervisor and the pipes of the helper.                             *)

\* The helper has lines left to write and no pipe it has a line for has
\* room.
ChildBlocked ==
    /\ child = "running"
    /\ \E s \in Streams : to_write[s] > 0
    /\ \A s \in Streams : to_write[s] > 0 => pipe[s] >= PipeCapacity

EmbedReturned == embed_pc \in {"returned_ok", "returned_err"}

\* C18: while child_read_to_end has not returned, a helper blocked on its
\* full pipes has a reader that can take a line, or a task has failed and
\* try_join! returns the error; and child_read_to_end returns in the end.
C18_SupervisorLiveness ==
    /\ []((embed_pc = "joining" /\ ChildBlocked) =>
             \/ \E s \in Streams : ENABLED ReadsLine(s)
             \/ ENABLED JoinErr)
    /\ <>EmbedReturned

\* The helper is blocked on both pipes, with lines left for both, while its
\* exit is awaited and both readers read.
C18_Witness ==
    /\ embed_pc = "joining"
    /\ ChildBlocked
    /\ \A s \in Streams :
          /\ to_write[s] > 0
          /\ pipe[s] = PipeCapacity
          /\ reader[s] = "reading"
    /\ waiter = "waiting"

----------------------------------------------------------------------------
(* The stream builder and the run of its stream.                           *)

Started(i) ==
    /\ i \in DOMAIN task_state
    /\ task_state[i] \notin {"unstarted", "pushed", "dropped_unpolled"}

Admitted(i) ==
    /\ i \in DOMAIN task_state
    /\ task_state[i] # "unstarted"

\* The lessons whose content has been fetched.
Fetched ==
    { k \in DOMAIN tree_items : tree_items[k].kind = "Lesson" /\ k < visit }

\* The items not yet processed: no directory, no content.
Undiscovered ==
    { k \in DOMAIN tree_items :
        k > visit \/ (k = visit /\ visit_step = "dir") }

\* C14, as stated: until a download has started, the content of at most one
\* lesson has been fetched.
C14_OneLessonAhead_AsStated ==
    (\A i \in DOMAIN downloads_stream : ~Started(i))
        => Cardinality(Fetched) <= 1

\* C14, amended: a download is admitted or started only when every item of
\* the tree has been processed: every directory created, the content of
\* every lesson fetched, process_tree_recursive returned.
C14_DiscoveryBeforeDownloads ==
    (executor_pc # "idle" \/ \E i \in DOMAIN downloads_stream : Admitted(i))
        => /\ builder_pc = "processed"
           /\ Undiscovered = {}
           /\ n_tasks = Len(downloads_stream)

\* The first download of a course of two lessons with a download each is
\* running, the second is still in the stream.
C14_Witness ==
    /\ Len(downloads_stream) = 2
    /\ downloads_stream[1].lesson # downloads_stream[2].lesson
    /\ Cardinality(Fetched) = 2
    /\ task_state = <<"running", "unstarted">>

\* The file a download future writes: download, main.rs:619 and 625.
Destination(i) ==
    Append(downloads_stream[i].path, FileName(downloads_stream[i].asset))

\* C15: no two downloads that run at the same time write the same file.
C15_NoWriteWriteRace ==
    \A i, j \in DOMAIN task_state :
        (i # j /\ task_state[i] = "running" /\ task_state[j] = "running")
            => Destination(i) # Destination(j)

IsPrefix(prefix, path) ==
    /\ Len(prefix) <= Len(path)
    /\ SubSeq(path, 1, Len(prefix)) = prefix

\* The directories of an item and of the categories it is in.
DirsOf(path) == { SubSeq(path, 1, k) : k \in 1..Len(path) }

\* C19: the directory of an item is created when the item is processed,
\* before the next item is; every download future of the stream, started or
\* not, has the directory of its lesson and of the categories around it
\* created; when a directory could not be created, the stream holds no
\* future of that item or of an item below it, and no download is ever
\* admitted.
C19_DirectoryBeforeTasks ==
    /\ \A k \in DOMAIN tree_items :
          k < visit => tree_items[k].path \in dirs
    /\ \A i \in DOMAIN downloads_stream :
          DirsOf(downloads_stream[i].path) \subseteq dirs
    /\ failed_at # 0 =>
          /\ builder_pc = "returned_err"
          /\ tree_items[failed_at].path \notin dirs
          /\ \A i \in DOMAIN downloads_stream :
                ~IsPrefix(tree_items[failed_at].path,
                          downloads_stream[i].path)
          /\ executor_pc = "idle"
          /\ task_state = <<>>

\* The directory of a lesson in a category could not be created, after a
\* lesson before it gave a download future.
C19_Witness ==
    /\ failed_at # 0
    /\ Len(tree_items[failed_at].path) = 2
    /\ downloads_stream # <<>>
    /\ dirs # {}

\* C20: the download futures are started in the order of the stream, which
\* is the order in which the tree is processed: when a download has
\* started, so has every download before it in the stream, and the lesson
\* of a download is never later in the tree than the lesson of a download
\* after it.
C20_AdmissionOrder ==
    /\ \A i, j \in DOMAIN downloads_stream :
          i < j => downloads_stream[i].lesson <= downloads_stream[j].lesson
    /\ \A i, j \in DOMAIN task_state :
          /\ (i < j /\ Admitted(j)) => Admitted(i)
          /\ (i < j /\ Started(j)) => Started(i)
          /\ (downloads_stream[i].lesson < downloads_stream[j].lesson
                  /\ Started(j)) => Started(i)

\* The downloads of two lessons run at the same time.
C20_Witness ==
    /\ Len(downloads_stream) = 2
    /\ downloads_stream[1].lesson < downloads_stream[2].lesson
    /\ task_state = <<"running", "running">>

----------------------------------------------------------------------------
(* Which failure the executor returns, and when a slot is free again. *)

\* The futures whose download has failed and whose output waits in the
\* queue of the executor for the outputs in front of it.
FailedUnseen == { i \in Tasks : task_state[i] = "done_err" }

\* C21, as stated: the failure the run returns is the failure of the future
\* that failed first in time; when a future has failed already and the run
\* then returns a failure, it returns the failure of a future that had
\* failed already, also when a future in front of it was still running.
C21_FirstInTime_AsStated ==
    [][(executor_pc' = "returned_err" /\ executor_pc # "returned_err"
            /\ FailedUnseen # {})
          => \E j \in FailedUnseen : task_state'[j] = "yielded_err"]_vars

\* C21, amended: the failure the run returns is the failure of the first
\* future in stream order that failed before the run returned: every
\* future in front of it was yielded Ok, and a future that had failed
\* before it in time is behind it in the stream, its failure never seen.
C21_FirstFailureInSequence ==
    executor_pc = "returned_err"
        => \E e \in Tasks :
              /\ task_state[e] = "yielded_err"
              /\ \A j \in Tasks :
                    /\ j < e => task_state[j] = "yielded_ok"
                    /\ task_state[j] = "yielded_err" => j = e
                    /\ j \in FailedUnseen => e < j

\* The second future failed while the first was running; the first failed
\* after it, and its failure is the one returned.
C21_Witness ==
    /\ n_tasks >= 2
    /\ executor_pc = "returned_err"
    /\ task_state[1] = "yielded_err"
    /\ task_state[2] = "done_err"

\* The futures admitted and not finished.
Executing == { i \in Tasks : task_state[i] \in {"pushed", "running"} }

NoFailure ==
    \A i \in Tasks : task_state[i] \notin {"done_err", "yielded_err"}

\* C22, as stated: a finished future does not keep a slot: while the
\* stream holds a future not started and no future has failed, fewer than
\* max(1, parallel) futures executing means that the executor is filling
\* its queue, also when a future admitted earlier is still running.
C22_SlotReuse_AsStated ==
    (executor_pc \in {"fill", "poll"} /\ StreamHasNext /\ NoFailure
        /\ Cardinality(Executing) < Limit)
      => executor_pc = "fill" /\ HasFreeSlot

\* C22, amended: a finished future keeps its slot until its output has
\* been yielded, which waits for the outputs of the futures in front of it:
\* the next future of the stream is admitted only while the futures
\* executing and the outputs not yielded together are fewer than
\* max(1, parallel), and it is the first future not yet admitted; while
\* the executor polls and the stream holds a future, they are
\* max(1, parallel).
C22_SlotHeldUntilYielded ==
    /\ [](/\ (executor_pc = "poll" /\ StreamHasNext)
                => Cardinality({ i \in Tasks :
                       task_state[i] \in {"pushed", "running",
                                          "done_ok", "done_err"} }) = Limit
          /\ \A i, j \in Tasks :
                (i < j /\ task_state[i] = "unstarted")
                    => task_state[j] = "unstarted")
    /\ [][\A i \in Tasks :
            (task_state[i] = "unstarted" /\ task_state'[i] # "unstarted")
                => /\ Cardinality({ j \in Tasks :
                         task_state[j] \in {"pushed", "running",
                                            "done_ok", "done_err"} }) < Limit
                   /\ task_state'[i] = "pushed"]_vars

\* Limit 2: the second future has finished, the first is still running and
\* the third is not admitted.
C22_Witness ==
    /\ parallel = 2
    /\ executor_pc = "poll"
    /\ task_state = <<"running", "done_ok", "unstarted">>

----------------------------------------------------------------------------
(* Ownership of the items, and the recursion of the resolver. *)

\* The ids of the nodes of the tree, followed by the ids of the remaining
\* pool.
OwnedIds ==
    TreeIds(module_tree)
        \o [i \in DOMAIN remaining_stack |-> remaining_stack[i].id]

\* C23: an item of the list is at most once in the tree and the remaining
\* pool together: no id is in the tree twice, in two subtrees or in one,
\* none is in the pool twice, and none is both in the tree and in the pool;
\* the tree and the pool hold items of the list only.
C23_SingleOwnership ==
    resolver_pc = "resolved" =>
        LET owned == OwnedIds
        IN  /\ Len(owned) = Cardinality(SeqRange(owned))
            /\ SeqRange(owned) \subseteq ItemIds(lessons_list)

\* Two root categories, the first of the list with a child: the child is in
\* the tree once, under its parent, and the pool is empty.
C23_Witness ==
    /\ resolver_pc = "resolved"
    /\ Len(lessons_list) = 3
    /\ Len(module_tree) = 2
    /\ \E i \in DOMAIN module_tree :
          /\ module_tree[i].kind = "Category"
          /\ module_tree[i].item.id = lessons_list[1].id
          /\ Len(module_tree[i].children) = 1
    /\ remaining_stack = <<>>

\* The number of items on the parent chain of the item `id`, the item
\* itself counted, followed for `fuel` steps at most; `parent` gives the
\* parent_id of every id of the list.
RECURSIVE ParentChain(_, _, _)
ParentChain(parent, id, fuel) ==
    IF parent[id] \notin DOMAIN parent \/ fuel = 0 THEN 1
    ELSE 1 + ParentChain(parent, parent[id], fuel - 1)

\* Some parent chain of the list has `length` items or more; a chain that
\* runs into a cycle is longer than the list.
HasParentChain(list, length) ==
    \/ length = 0
    \/ LET parent == [id \in ItemIds(list) |-> ItemById(list, id).parent_id]
       IN  \E id \in DOMAIN parent :
              ParentChain(parent, id, Len(list)) >= length

\* C24: resolve_module_tree(None, list) returns for every list, also when
\* parent references form a cycle or an item is its own parent: the calls
\* it made to compute its result are nested no deeper than the list is
\* long, every recursive call was handed a pool of fewer items than the
\* pool of the call that partitioned the level, and the calls are nested no
\* deeper than the longest parent chain of the list is long.
C24_ResolverTerminates ==
    resolver_pc = "resolved" =>
        /\ resolver_calls.shrinking
        /\ resolver_calls.depth <= Len(lessons_list)
        /\ HasParentChain(lessons_list, resolver_calls.depth)

\* A list with an item that is its own parent, and a root category with a
\* child, has been resolved: two calls, one in the other.
C24_Witness ==
    /\ resolver_pc = "resolved"
    /\ \E i \in DOMAIN lessons_list :
          lessons_list[i].parent_id = lessons_list[i].id
    /\ ~NoParentCycle(lessons_list)
    /\ resolver_calls.depth = 2

----------------------------------------------------------------------------
(* A failure while the tree is processed. *)

\* C25: when the directory of an item cannot be created, or the content of
\* a lesson cannot be fetched (the lesson has no content page id, or the
\* request fails), the run returns the error and does nothing more: no
\* download future is ever handed to the executor, also not those of the
\* lessons processed before; the directories created before the failure
\* are still there.
C25_DiscoveryFailureBeforeDownloads ==
    /\ [](builder_pc = "returned_err"
            => /\ executor_pc = "idle"
               /\ task_state = <<>>
               /\ \A i \in DOMAIN downloads_stream : ~Admitted(i)
               /\ \A k \in DOMAIN tree_items :
                     (k < visit \/ (k = visit /\ visit_step = "fetch"))
                         => tree_items[k].path \in dirs)
    /\ [][/\ builder_pc # "returned_err"
          /\ dirs \subseteq dirs'
          /\ failed_at' # failed_at => builder_pc' = "returned_err"]_vars

\* The content of the second lesson could not be fetched, after the first
\* lesson gave a download future: two directories, no download.
C25_Witness ==
    /\ builder_pc = "returned_err"
    /\ failed_at = 0
    /\ visit_step = "fetch"
    /\ Cardinality(Fetched) = 1
    /\ downloads_stream # <<>>
    /\ Cardinality(dirs) = 2

----------------------------------------------------------------------------
(* The assertion of download_video. *)

\* C26: whenever download_video has run for a hosted video whose list of
\* variants is present, the declared type of the video is "Video": the
\* assertion holds, and the future has returned Ok or an error, it has not
\* panicked.
C26_AssertionNeverFails ==
    /\ discovery_pc # "panicked"
    /\ \A i \in DOMAIN results :
          (/\ futures[i].kind = "download_video"
           /\ IsSome(Unwrap(futures[i].wistia_data).assets))
              => /\ Unwrap(futures[i].wistia_data).type = Some("Video")
                 /\ results[i] \in {"ok", "err"}

====
